---- MODULE Spec2Model ----
(***************************************************************************)
(* Model of the Chatty plugin (obsidian-chatty): the voice resolution of   *)
(* speakText, the dictate-selection hotkey listener, the hotkey capture    *)
(* listener of the settings tab and the plugin / settings tab lifecycle.   *)
(*                                                                         *)
(* JavaScript strings are TLA+ strings; an optional string (a field that   *)
(* may be undefined) is a sequence of at most one string.                  *)
(***************************************************************************)
EXTENDS Integers, Sequences, FiniteSets, TLC

\* ------------------------------------------------------------------ bounds
\* Largest voice catalog the speech engine reports.
MaxVoices == 2
\* Number of times the settings panel body is (re)built by updateSettings.
MaxRenders == 2

\* ------------------------------------------------------------ input sets
Langs == {"en-US", "en-GB"}
NoLang == "de-DE"
VoiceNames == {"Zira", "Hazel", "David"}
NoVoiceName == "Ghost"

\* SpeechSynthesisVoice snapshots: name, lang and the default flag.
Voice(n, l, d) == [name |-> n, lang |-> l, default |-> d]
Descriptors == {Voice(n, l, d) : n \in VoiceNames, l \in Langs, d \in BOOLEAN}

RECURSIVE SeqsUpTo(_, _)
SeqsUpTo(S, n) ==
  IF n = 0 THEN {<<>>}
  ELSE LET shorter == SeqsUpTo(S, n - 1)
       IN shorter \cup {Append(s, x) : s \in {t \in shorter : Len(t) = n - 1}, x \in S}

UniqueNames(cat) ==
  \A i, j \in 1..Len(cat) : cat[i].name = cat[j].name => i = j

\* Catalogs of at most MaxVoices voices with unique names.
Catalogs == {c \in SeqsUpTo(Descriptors, MaxVoices) : UniqueNames(c)}

Zira == Voice("Zira", "en-US", TRUE)
\* Catalogs of the whole-plugin specification: not loaded yet, or one voice.
PluginCatalogs == {<<>>, <<Zira>>}

\* Key identifiers (KeyboardEvent.key) of the events considered.
ModifierKeys == {"Control", "Shift", "Alt", "Meta"}
Keys == {"s", "S", "Escape"} \cup ModifierKeys
Snapshots ==
  [ctrlKey : BOOLEAN, shiftKey : BOOLEAN, altKey : BOOLEAN, metaKey : BOOLEAN,
   key : Keys]
Snapshot(c, s, a, m, k) ==
  [ctrlKey |-> c, shiftKey |-> s, altKey |-> a, metaKey |-> m, key |-> k]
\* Key events of the whole-plugin specification: plain and chorded presses of
\* a character key, a named key, and each modifier key going down.
PluginSnapshots ==
  {Snapshot(FALSE, FALSE, FALSE, FALSE, "s"),
   Snapshot(TRUE, TRUE, FALSE, FALSE, "s"),
   Snapshot(TRUE, FALSE, TRUE, FALSE, "s"),
   Snapshot(FALSE, FALSE, FALSE, FALSE, "Escape"),
   Snapshot(TRUE, FALSE, FALSE, FALSE, "Control"),
   Snapshot(FALSE, TRUE, FALSE, FALSE, "Shift"),
   Snapshot(FALSE, FALSE, TRUE, FALSE, "Alt"),
   Snapshot(FALSE, FALSE, FALSE, TRUE, "Meta")}
\* Placeholder of `ev` while the last operation was not a key-down.
NoEvent ==
  [ctrlKey |-> FALSE, shiftKey |-> FALSE, altKey |-> FALSE, metaKey |-> FALSE,
   key |-> ""]

Selections == {"", "hello"}
\* getActiveViewOfType(MarkdownView) and its editor's getSelection().
Editors == {[view |-> FALSE, selection |-> ""]}
             \cup {[view |-> TRUE, selection |-> t] : t \in Selections}
NoEditor == [view |-> FALSE, selection |-> ""]
TestText == "Hello, this is a test of the text-to-speech functionality."

\* ------------------------------------------------------------- optionals
Undefined == <<>>
Some(s) == <<s>>
\* JavaScript truthiness of an optional string: undefined and "" are falsy.
Truthy(o) == o # Undefined /\ o[1] # ""
\* o || d
OrElse(o, d) == IF Truthy(o) THEN o[1] ELSE d

\* ---------------------------------------------------------------- state
VARIABLES
  phase,             \* "constructed", "loaded" (after onload), "unloaded"
  defaults,          \* DEFAULT_SETTINGS, evaluated when the module is loaded
  settings,          \* plugin.settings
  voices,            \* window.speechSynthesis.getVoices()
  dictateListener,   \* dictateSelectionHotkeyHanlder registered on window
  captureListeners,  \* renders whose keyDownHandler is registered (capture)
  onvoiceschanged,   \* speechSynthesis.onvoiceschanged is updateSettings
  tab,               \* settings tab container: "none", "loading", "rendered"
  renders,           \* number of updateSettings runs; the current render's id
  renderVoices,      \* `voices` captured by the current render
  hotkeyText,        \* value of the current render's hotkey text field
  lastOp,            \* the last operation
  ev,                \* its key event (NoEvent when it was no key-down)
  editor,            \* the active view and selection at that key event
  pressedHotkey,     \* combo built by the dictate listener for `ev`
  captured,          \* combos built by the capture listeners for `ev`
  prevented,         \* event.preventDefault() was called on `ev`
  spoken,            \* speechSynthesis.speak invocations of the last operation
  notices,           \* Notices raised by the last operation
  saved              \* saveSettings calls of the last operation

vars ==
  <<phase, defaults, settings, voices, dictateListener, captureListeners,
    onvoiceschanged, tab, renders, renderVoices, hotkeyText, lastOp, ev,
    editor, pressedHotkey, captured, prevented, spoken, notices, saved>>

pluginVars == <<phase, defaults, dictateListener>>
uiVars == <<tab, renders, renderVoices, hotkeyText, onvoiceschanged>>

\* ------------------------------------------------------- pure functions
\* Array.prototype.find, over the outcomes of the callback on each element
\* in order: the index of the first element that passes, 0 (undefined) if none.
RECURSIVE FindFrom(_, _)
FindFrom(passes, i) ==
  IF i > Len(passes) THEN 0
  ELSE IF passes[i] THEN i
  ELSE FindFrom(passes, i + 1)

Find(passes) == FindFrom(passes, 1)

\* voices.find((v) => v.name === voice)
FindByName(cat, voice) == Find([i \in 1..Len(cat) |-> cat[i].name = voice])
\* voices.find((v) => v.lang === lang)
FindByLang(cat, lang) == Find([i \in 1..Len(cat) |-> cat[i].lang = lang])
\* getVoices().find((voice) => voice.default)
FindDefault(cat) == Find([i \in 1..Len(cat) |-> cat[i].default])

\* Array.prototype.join
RECURSIVE Join(_, _)
Join(tokens, sep) ==
  IF Len(tokens) = 0 THEN ""
  ELSE IF Len(tokens) = 1 THEN tokens[1]
  ELSE tokens[1] \o sep \o Join(Tail(tokens), sep)

\* String.prototype.toUpperCase on the single-character keys of Keys.
ToUpperCase(c) ==
  CASE c = "s" -> "S"
    [] OTHER -> c

\* The key token pushed last by both key-down handlers.
KeyToken(key) == IF Len(key) = 1 THEN ToUpperCase(key) ELSE key

\* Mutant of DictateCombo: "Alt" is pushed before "Shift".
DictateComboAltFirst(e) ==
  LET k0 == <<>>
      k1 == IF e.ctrlKey THEN Append(k0, "Ctrl") ELSE k0
      k2 == IF e.altKey THEN Append(k1, "Alt") ELSE k1
      k3 == IF e.shiftKey THEN Append(k2, "Shift") ELSE k2
      k4 == IF e.metaKey THEN Append(k3, "Meta") ELSE k3
      k5 == Append(k4, KeyToken(e.key))
  IN Join(k5, "+")

\* keyCombo of dictateSelectionHotkeyHanlder, joined into pressedHotkey.
DictateCombo(e) ==
  LET k0 == <<>>
      k1 == IF e.ctrlKey THEN Append(k0, "Ctrl") ELSE k0
      k2 == IF e.shiftKey THEN Append(k1, "Shift") ELSE k1
      k3 == IF e.altKey THEN Append(k2, "Alt") ELSE k2
      k4 == IF e.metaKey THEN Append(k3, "Meta") ELSE k3
      k5 == Append(k4, KeyToken(e.key))
  IN Join(k5, "+")

\* Mutant of IsModifier: the "Alt" key is not recognised as a modifier.
IsModifierNoAlt(e) ==
  \/ e.key = "Control"
  \/ e.key = "Shift"
  \/ e.key = "Meta"

\* isModifier of the capture keyDownHandler.
IsModifier(e) ==
  \/ e.key = "Control"
  \/ e.key = "Shift"
  \/ e.key = "Alt"
  \/ e.key = "Meta"

\* combo of the capture keyDownHandler, joined into hotkey.
CaptureCombo(e) ==
  LET c0 == <<>>
      c1 == IF e.ctrlKey THEN Append(c0, "Ctrl") ELSE c0
      c2 == IF e.shiftKey THEN Append(c1, "Shift") ELSE c1
      c3 == IF e.altKey THEN Append(c2, "Alt") ELSE c2
      c4 == IF e.metaKey THEN Append(c3, "Meta") ELSE c3
      c5 == Append(c4, KeyToken(e.key))
  IN Join(c5, "+")

\* Mutant of HotkeyMatches: an assignment in place of the comparison, which
\* is truthy for every hotkey that passed `if (!hotkey) return`.
HotkeyMatchesAssigned(pressed, hotkey) == hotkey[1] # ""

\* pressedHotkey === hotkey, for a hotkey that passed `if (!hotkey) return`.
HotkeyMatches(pressed, hotkey) == pressed = hotkey[1]

\* The text shown in the hotkey field when the panel is built.
HotkeyFieldDefault == "Ctrl+Shift+S"
\* The binding stored by the 'Reset Hotkey to Default' button.
ResetHotkey == "Ctrl+Shift+S"

\* getAvailableLanguages (as a set: the order only fills the dropdown).
AvailableLanguages(cat) == {cat[i].lang : i \in 1..Len(cat)}

\* Mutant of MatchingVoice: the language is searched before the name.
MatchingVoiceLangFirst(cat, lang, voice) ==
  LET byLang == FindByLang(cat, lang)
  IN IF byLang # 0 THEN byLang ELSE FindByName(cat, voice)

\* Mutant of MatchingVoice: no fallback to the language.
MatchingVoiceNameOnly(cat, lang, voice) ==
  FindByName(cat, voice)

\* The voice speakText resolves to, as an index of the catalog (0: none).
MatchingVoice(cat, lang, voice) ==
  LET byName == FindByName(cat, voice)
  IN IF byName # 0 THEN byName ELSE FindByLang(cat, lang)

\* speakText: the speak invocations and the Notices it makes.
SpeakText(text, lang, voice, cat) ==
  IF voice # ""
  THEN LET m == MatchingVoice(cat, lang, voice)
       IN IF m # 0
          THEN [spoken |-> <<[text |-> text, lang |-> lang, voice |-> cat[m]]>>,
                notices |-> <<>>]
          ELSE [spoken |-> <<>>, notices |-> <<"NoVoice">>]
  ELSE [spoken |-> <<>>, notices |-> <<>>]

\* DEFAULT_SETTINGS for a navigator language and the catalog at module load.
DefaultSettings(navLang, cat) ==
  LET d == FindDefault(cat)
  IN [defaultLanguage |-> navLang,
      selectedVoice |-> IF d # 0 THEN cat[d].name ELSE "",
      chattyDictateSelectionHotkey |-> Undefined]

\* Object.assign({}, DEFAULT_SETTINGS, data): fields present in data win.
AssignSettings(def, data) ==
  [f \in DOMAIN def |->
     IF f = "chattyDictateSelectionHotkey"
     THEN (IF data[f] # Undefined THEN data[f] ELSE def[f])
     ELSE (IF data[f] # Undefined THEN data[f][1] ELSE def[f])]

\* ------------------------------------------------------------- the state
\* What loadData() may return: each field present or not (null: none is).
Stored(l, v, h) ==
  [defaultLanguage |-> l, selectedVoice |-> v, chattyDictateSelectionHotkey |-> h]
\* A first run (null) and a data.json written by an earlier session.
PluginStored ==
  {Stored(Undefined, Undefined, Undefined),
   Stored(Some("en-US"), Some("Zira"), Some("Ctrl+Shift+S"))}

NavigatorLanguage == "en-US"

\* The outputs of an operation that makes none.
Quiet ==
  /\ ev' = NoEvent
  /\ editor' = NoEditor
  /\ pressedHotkey' = Undefined
  /\ captured' = <<>>
  /\ prevented' = FALSE

\* The plugin object after its constructor, before onload: no listener is
\* registered and no settings tab exists; plugin.settings is not assigned yet
\* (it is read by no handler before onload) and holds DEFAULT_SETTINGS.
Init ==
  /\ phase = "constructed"
  /\ voices \in PluginCatalogs
  /\ defaults = DefaultSettings(NavigatorLanguage, voices)
  /\ settings = defaults
  /\ dictateListener = FALSE
  /\ captureListeners = {}
  /\ onvoiceschanged = FALSE
  /\ tab = "none"
  /\ renders = 0
  /\ renderVoices = <<>>
  /\ hotkeyText = ""
  /\ lastOp = "constructor"
  /\ ev = NoEvent
  /\ editor = NoEditor
  /\ pressedHotkey = Undefined
  /\ captured = <<>>
  /\ prevented = FALSE
  /\ spoken = <<>>
  /\ notices = <<>>
  /\ saved = 0

\* ------------------------------------------------------------ operations
\* onload: loadSettings, the load Notice, the settings tab, the window listener.
Onload(data) ==
  /\ phase = "constructed"
  /\ phase' = "loaded"
  /\ settings' = AssignSettings(defaults, data)
  /\ dictateListener' = TRUE
  /\ lastOp' = "onload"
  /\ Quiet
  /\ spoken' = <<>>
  /\ notices' = <<"Loaded">>
  /\ saved' = 0
  /\ UNCHANGED <<defaults, voices, captureListeners, uiVars>>

\* onunload: cancels speech and removes the dictate listener.
Onunload ==
  /\ phase = "loaded"
  /\ phase' = "unloaded"
  /\ dictateListener' = FALSE
  /\ lastOp' = "onunload"
  /\ Quiet
  /\ spoken' = <<>>
  /\ notices' = <<>>
  /\ saved' = 0
  /\ UNCHANGED <<defaults, settings, voices, captureListeners, uiVars>>

\* updateSettings: rebuilds the panel body; its closures (keyDownHandler
\* among them) are new, and capture `voices` as of now.
UpdateSettings(cat) ==
  /\ renders < MaxRenders
  /\ renders' = renders + 1
  /\ tab' = "rendered"
  /\ renderVoices' = cat
  /\ hotkeyText' = OrElse(settings.chattyDictateSelectionHotkey, HotkeyFieldDefault)

\* display(): empties the container, then builds the panel now or, while no
\* voice is loaded, on voiceschanged.
Display ==
  /\ phase = "loaded"
  /\ IF Len(voices) = 0
     THEN /\ onvoiceschanged' = TRUE
          /\ tab' = "loading"
          /\ hotkeyText' = ""
          /\ renderVoices' = <<>>
          /\ UNCHANGED renders
     ELSE /\ UpdateSettings(voices)
          /\ UNCHANGED onvoiceschanged
  /\ lastOp' = "display"
  /\ Quiet
  /\ spoken' = <<>>
  /\ notices' = <<>>
  /\ saved' = 0
  /\ UNCHANGED <<pluginVars, settings, voices, captureListeners>>

\* The speech engine reports a new catalog; onvoiceschanged, when set, runs.
VoicesChanged(cat) ==
  /\ voices' = cat
  /\ IF onvoiceschanged
     THEN UpdateSettings(cat)
     ELSE UNCHANGED <<tab, renders, renderVoices, hotkeyText>>
  /\ lastOp' = "voiceschanged"
  /\ Quiet
  /\ spoken' = <<>>
  /\ notices' = <<>>
  /\ saved' = 0
  /\ UNCHANGED <<pluginVars, settings, captureListeners, onvoiceschanged>>

\* The settings panel is on screen and its controls can be used.
PanelUsable == phase = "loaded" /\ tab = "rendered"

\* 'Default Language' dropdown onChange.
LanguageChange(value) ==
  /\ PanelUsable
  /\ value \in AvailableLanguages(renderVoices)
  /\ value # settings.defaultLanguage
  /\ settings' = [settings EXCEPT !.defaultLanguage = value]
  /\ lastOp' = "language"
  /\ Quiet
  /\ spoken' = <<>>
  /\ notices' = <<>>
  /\ saved' = 1
  /\ UNCHANGED <<pluginVars, voices, captureListeners, uiVars>>

\* 'Preferred Voice' dropdown onChange: the voices of the selected language.
VoiceChange(value) ==
  /\ PanelUsable
  /\ \E i \in 1..Len(renderVoices) :
       /\ renderVoices[i].lang = settings.defaultLanguage
       /\ renderVoices[i].name = value
  /\ value # settings.selectedVoice
  /\ settings' = [settings EXCEPT !.selectedVoice = value]
  /\ lastOp' = "voice"
  /\ Quiet
  /\ spoken' = <<>>
  /\ notices' = <<>>
  /\ saved' = 1
  /\ UNCHANGED <<pluginVars, voices, captureListeners, uiVars>>

\* 'Test Speech' button.
TestSpeech ==
  /\ PanelUsable
  /\ LET r == SpeakText(TestText, settings.defaultLanguage,
                        settings.selectedVoice, voices)
     IN /\ spoken' = r.spoken
        /\ notices' = r.notices
  /\ lastOp' = "testSpeech"
  /\ Quiet
  /\ saved' = 0
  /\ UNCHANGED <<pluginVars, settings, voices, captureListeners, uiVars>>

\* 'Speak Selected Text' item of the editor menu (offered for a selection).
MenuSpeak(selectedText) ==
  /\ phase = "loaded"
  /\ selectedText # ""
  /\ LET r == SpeakText(selectedText, settings.defaultLanguage,
                        settings.selectedVoice, voices)
     IN /\ spoken' = r.spoken
        /\ notices' = r.notices
  /\ lastOp' = "menuSpeak"
  /\ Quiet
  /\ saved' = 0
  /\ UNCHANGED <<pluginVars, settings, voices, captureListeners, uiVars>>

\* 'Set/Update Hotkey' button: registers this render's keyDownHandler for the
\* capture phase (registering the same handler again changes nothing).
SetHotkeyClick ==
  /\ PanelUsable
  /\ captureListeners' = captureListeners \cup {renders}
  /\ lastOp' = "setHotkey"
  /\ Quiet
  /\ spoken' = <<>>
  /\ notices' = <<"PressHotkey">>
  /\ saved' = 0
  /\ UNCHANGED <<pluginVars, settings, voices, uiVars>>

\* 'Reset Hotkey to Default' button.
ResetHotkeyClick ==
  /\ PanelUsable
  /\ settings' = [settings EXCEPT !.chattyDictateSelectionHotkey = Some(ResetHotkey)]
  /\ hotkeyText' = ResetHotkey
  /\ lastOp' = "resetHotkey"
  /\ Quiet
  /\ spoken' = <<>>
  /\ notices' = <<"HotkeyReset">>
  /\ saved' = 1
  /\ UNCHANGED <<pluginVars, voices, captureListeners, tab, renders,
                 renderVoices, onvoiceschanged>>

\* 'Clear Hotkey' button.
ClearHotkeyClick ==
  /\ PanelUsable
  /\ settings' = [settings EXCEPT !.chattyDictateSelectionHotkey = Some("")]
  /\ hotkeyText' = ""
  /\ lastOp' = "clearHotkey"
  /\ Quiet
  /\ spoken' = <<>>
  /\ notices' = <<"HotkeyCleared">>
  /\ saved' = 1
  /\ UNCHANGED <<pluginVars, voices, captureListeners, tab, renders,
                 renderVoices, onvoiceschanged>>

\* The capture listeners an event reaches: every registered keyDownHandler
\* runs, and returns at once on a modifier key.
CaptureFires(e) == IF IsModifier(e) THEN {} ELSE captureListeners

\* The stored hotkey once the capture listeners have run.
HotkeyAfterCapture(e) ==
  IF CaptureFires(e) # {}
  THEN Some(CaptureCombo(e))
  ELSE settings.chattyDictateSelectionHotkey

\* The dictate listener gets past `if (!hotkey) return` and builds its combo.
DictateBuilds(e) == dictateListener /\ Truthy(HotkeyAfterCapture(e))

\* Mutant of DictateMatches: an unset or empty hotkey falls back to the
\* default the settings panel displays.
DictateMatchesFallback(e) ==
  /\ dictateListener
  /\ DictateCombo(e) = OrElse(HotkeyAfterCapture(e), HotkeyFieldDefault)

\* The dictate listener takes `if (pressedHotkey === hotkey)`.
DictateMatches(e) ==
  DictateBuilds(e) /\ HotkeyMatches(DictateCombo(e), HotkeyAfterCapture(e))

\* What the matched branch of the dictate listener says and notifies.
DictateSelection(ed) ==
  IF ed.view
  THEN IF ed.selection # ""
       THEN SpeakText(ed.selection, settings.defaultLanguage,
                      settings.selectedVoice, voices)
       ELSE [spoken |-> <<>>, notices |-> <<"NoText">>]
  ELSE [spoken |-> <<>>, notices |-> <<>>]

\* A key-down event on the window: the capture-phase keyDownHandlers run
\* first (each stores the combo, saves, notifies and removes itself), then the
\* plugin's dictate listener.
KeyDown(e, ed) ==
  LET fired == CaptureFires(e)
      n == Cardinality(fired)
      r == IF DictateMatches(e) THEN DictateSelection(ed)
           ELSE [spoken |-> <<>>, notices |-> <<>>]
  IN /\ settings' =
          [settings EXCEPT !.chattyDictateSelectionHotkey = HotkeyAfterCapture(e)]
     /\ captureListeners' = captureListeners \ fired
     /\ captured' = [i \in 1..n |-> CaptureCombo(e)]
     /\ hotkeyText' = IF tab = "rendered" /\ renders \in fired
                      THEN CaptureCombo(e) ELSE hotkeyText
     /\ saved' = n
     /\ pressedHotkey' = IF DictateBuilds(e) THEN Some(DictateCombo(e)) ELSE Undefined
     /\ prevented' = DictateMatches(e)
     /\ spoken' = r.spoken
     /\ notices' = [i \in 1..n |-> "HotkeySet"] \o r.notices
     /\ lastOp' = "keydown"
     /\ ev' = e
     /\ editor' = ed
     /\ UNCHANGED <<pluginVars, voices, tab, renders, renderVoices, onvoiceschanged>>

Next ==
  \/ \E data \in PluginStored : Onload(data)
  \/ Onunload
  \/ Display
  \/ \E cat \in PluginCatalogs : VoicesChanged(cat)
  \/ SetHotkeyClick
  \/ ResetHotkeyClick
  \/ ClearHotkeyClick
  \/ \E e \in PluginSnapshots, ed \in Editors : KeyDown(e, ed)

Spec == Init /\ [][Next]_vars

\* --------------------------------------------- the key-down handlers alone
\* Every key snapshot against every binding: the plugin is loaded, its panel
\* is on screen, a markdown view with a selection is active, and the stored
\* binding is absent, cleared, the reset default, or a hand-edited data.json
\* value; the bindings a capture can store are reached by capturing them.
KeysBindings ==
  {Undefined, Some(""), Some("Ctrl+Shift+S"), Some("Ctrl+Shift+s")}
KeysEditors == {[view |-> TRUE, selection |-> "hello"]}

InitKeys ==
  /\ phase = "loaded"
  /\ voices = <<Zira>>
  /\ defaults = DefaultSettings(NavigatorLanguage, voices)
  /\ \E h \in KeysBindings :
       /\ settings = AssignSettings(defaults, Stored(Undefined, Undefined, h))
       /\ hotkeyText = OrElse(h, HotkeyFieldDefault)
  /\ dictateListener = TRUE
  /\ captureListeners = {}
  /\ onvoiceschanged = FALSE
  /\ tab = "rendered"
  /\ renders = 1
  /\ renderVoices = voices
  /\ lastOp = "display"
  /\ ev = NoEvent
  /\ editor = NoEditor
  /\ pressedHotkey = Undefined
  /\ captured = <<>>
  /\ prevented = FALSE
  /\ spoken = <<>>
  /\ notices = <<>>
  /\ saved = 0

NextKeys ==
  \/ \E e \in Snapshots, ed \in KeysEditors : KeyDown(e, ed)
  \/ SetHotkeyClick
  \/ ResetHotkeyClick
  \/ ClearHotkeyClick

SpecKeys == InitKeys /\ [][NextKeys]_vars

\* ------------------------------------------------------- speakText alone
\* Every catalog against every requested language and voice name: the plugin
\* is loaded with its panel on screen and the settings hold any language and
\* voice name (loadData returns what an earlier session or the user stored).
RequestLangs == Langs \cup {NoLang}
RequestVoices == VoiceNames \cup {"", NoVoiceName}

InitSpeak ==
  /\ phase = "loaded"
  /\ voices \in Catalogs
  /\ defaults = DefaultSettings(NavigatorLanguage, voices)
  /\ \E l \in RequestLangs, v \in RequestVoices :
       settings = AssignSettings(defaults, Stored(Some(l), Some(v), Undefined))
  /\ dictateListener = TRUE
  /\ captureListeners = {}
  /\ onvoiceschanged = FALSE
  /\ tab = "rendered"
  /\ renders = 1
  /\ renderVoices = voices
  /\ hotkeyText = HotkeyFieldDefault
  /\ lastOp = "display"
  /\ ev = NoEvent
  /\ editor = NoEditor
  /\ pressedHotkey = Undefined
  /\ captured = <<>>
  /\ prevented = FALSE
  /\ spoken = <<>>
  /\ notices = <<>>
  /\ saved = 0

NextSpeak ==
  \/ TestSpeech
  \/ \E t \in Selections : MenuSpeak(t)
  \/ \E value \in Langs : LanguageChange(value)
  \/ \E value \in VoiceNames : VoiceChange(value)

SpecSpeak == InitSpeak /\ [][NextSpeak]_vars

\* ================================================================ claims
\* The operations that call speakText with the stored language and voice.
SpeakOps == {"testSpeech", "menuSpeak"}
Requested == settings.defaultLanguage
VoiceName == settings.selectedVoice

\* The first voice of the catalog, in catalog order, with the language.
HasLang(cat, lang) == \E i \in 1..Len(cat) : cat[i].lang = lang
FirstWithLang(cat, lang) ==
  CHOOSE i \in 1..Len(cat) :
    /\ cat[i].lang = lang
    /\ \A j \in 1..(i - 1) : cat[j].lang # lang
HasName(cat, name) == \E i \in 1..Len(cat) : cat[i].name = name

\* The outcome "the first voice with the requested language, or NotFound".
LanguageOnlyOutcome ==
  IF HasLang(voices, Requested)
  THEN /\ Len(spoken) = 1
       /\ spoken[1].voice = voices[FirstWithLang(voices, Requested)]
  ELSE spoken = <<>>

\* C1: speakText called with an empty voice name speaks with the first voice
\* of the catalog whose lang equals the requested language, and speaks with
\* none only when no voice has that language.
C1_EmptyNameSelectsByLanguage ==
  (lastOp \in SpeakOps /\ VoiceName = "") => LanguageOnlyOutcome

\* C2: when a voice of the catalog carries the requested name, speakText
\* speaks with exactly that voice, whatever the requested language.
C2_NameOverridesLanguage ==
  lastOp \in SpeakOps =>
    \A i \in 1..Len(voices) :
      voices[i].name = VoiceName =>
        /\ Len(spoken) = 1
        /\ spoken[1].voice = voices[i]
        /\ spoken[1].lang = Requested
        /\ notices = <<>>

\* C2 witness: the named voice is spoken although an earlier voice of the
\* catalog has the requested language and the named one has not.
C2_Witness ==
  /\ lastOp = "testSpeech"
  /\ Len(voices) = 2
  /\ voices[1].lang = Requested
  /\ voices[2].name = VoiceName
  /\ voices[2].lang # Requested
  /\ spoken # <<>>
  /\ spoken[1].voice = voices[2]

\* C3: a non-empty voice name carried by no voice of the catalog falls back
\* to the language: the first voice with the requested language is spoken,
\* and none is only when no voice has that language.
C3_UnknownNameFallsBack ==
  (lastOp \in SpeakOps /\ VoiceName # "" /\ ~HasName(voices, VoiceName))
    => LanguageOnlyOutcome

\* C3 witness: an unknown name, two voices with the requested language, the
\* first of them spoken.
C3_Witness ==
  /\ lastOp \in SpeakOps
  /\ VoiceName = NoVoiceName
  /\ Len(voices) = 2
  /\ voices[1].lang = Requested
  /\ voices[2].lang = Requested
  /\ spoken # <<>>
  /\ spoken[1].voice = voices[1]

\* C4: whenever neither the name nor the language finds a voice, for any
\* voice name (the empty one included), a Notice is raised and speak is not
\* invoked.
C4_NotFoundIsNotified ==
  (lastOp \in SpeakOps /\ ~HasName(voices, VoiceName) /\ ~HasLang(voices, Requested))
    => /\ spoken = <<>>
       /\ notices = <<"NoVoice">>

\* The stored hotkey binding.
Binding == settings.chattyDictateSelectionHotkey

\* The combo string the specification prescribes for a key snapshot: the
\* tokens of the true flags in the order Ctrl, Shift, Alt, Meta, then the key
\* token, joined by "+".
UpperCased(key) == IF key \in {"s", "S"} THEN "S" ELSE key
ExpectedCombo(e) ==
  (IF e.ctrlKey THEN "Ctrl+" ELSE "")
    \o (IF e.shiftKey THEN "Shift+" ELSE "")
    \o (IF e.altKey THEN "Alt+" ELSE "")
    \o (IF e.metaKey THEN "Meta+" ELSE "")
    \o UpperCased(e.key)

CtrlShiftS == Snapshot(TRUE, TRUE, FALSE, FALSE, "s")
CtrlAltS == Snapshot(TRUE, FALSE, TRUE, FALSE, "s")

\* C5: for every key snapshot, the combo the dictate listener builds and the
\* combo every capture listener builds are the prescribed combo string, hence
\* the same string.
C5_CombosAreNormalized ==
  lastOp = "keydown" =>
    /\ pressedHotkey # Undefined => pressedHotkey[1] = ExpectedCombo(ev)
    /\ \A i \in 1..Len(captured) : captured[i] = ExpectedCombo(ev)

\* C5 witness: Ctrl+Shift+s went through a capture listener and the dictate
\* listener, and both built "Ctrl+Shift+S".
C5_Witness ==
  /\ lastOp = "keydown"
  /\ ev = CtrlShiftS
  /\ captured = <<"Ctrl+Shift+S">>
  /\ pressedHotkey = Some("Ctrl+Shift+S")

C7_CaptureStep ==
  [][lastOp' = "keydown" =>
       IF captureListeners = {}
       THEN Binding' = Binding /\ captureListeners' = {}
       ELSE IF ev'.key \in ModifierKeys
       THEN Binding' = Binding /\ captureListeners' = captureListeners
       ELSE Binding' = Some(ExpectedCombo(ev')) /\ captureListeners' = {}]_vars

\* C7 witness: a capture completed on Ctrl+Alt+s: the binding is
\* "Ctrl+Alt+S" and no capture listens any more.
C7_Witness ==
  /\ lastOp = "keydown"
  /\ ev = CtrlAltS
  /\ captured # <<>>
  /\ Binding = Some("Ctrl+Alt+S")
  /\ captureListeners = {}

\* C8: the default hotkey is Ctrl+Alt+S: 'Reset Hotkey to Default' stores
\* "Ctrl+Alt+S", and while no hotkey was ever set, Ctrl+Alt+s pressed with
\* text selected (and a voice that resolves) speaks.
C8_DefaultIsCtrlAltS ==
  /\ lastOp = "resetHotkey" => Binding = Some("Ctrl+Alt+S")
  /\ (/\ lastOp = "keydown"
      /\ dictateListener
      /\ Binding = Undefined
      /\ ev = CtrlAltS
      /\ editor.view
      /\ editor.selection # ""
      /\ HasName(voices, VoiceName))
       => spoken # <<>>

\* C9: the dictate listener treats a key-down as a match, calling
\* preventDefault and going on to speak the selection, exactly when the
\* prescribed combo of the event equals the stored binding.
C9_MatchIffEqual ==
  (lastOp = "keydown" /\ dictateListener) =>
    /\ prevented <=> Binding = Some(ExpectedCombo(ev))
    /\ spoken # <<>> => prevented

\* C9 witness: with no capture listening, Ctrl+Shift+s matched the stored
\* "Ctrl+Shift+S" and the selection was spoken.
C9_Witness ==
  /\ lastOp = "keydown"
  /\ dictateListener
  /\ captured = <<>>
  /\ ev = CtrlShiftS
  /\ Binding = Some("Ctrl+Shift+S")
  /\ prevented
  /\ Len(spoken) = 1

\* C10: there is never more than one registered capture key-down listener.
C10_AtMostOneCapture == Cardinality(captureListeners) <= 1

\* C11: the key-down that completes a capture only records the new binding:
\* the dictate listener, which receives the same event after the capture
\* listener, does not treat it as a match, so it calls no preventDefault,
\* invokes no speech and raises no 'No text selected' Notice.
C11_CapturingPressOnlyRecords ==
  (lastOp = "keydown" /\ captured # <<>>) =>
    /\ ~prevented
    /\ spoken = <<>>
    /\ \A i \in 1..Len(notices) : notices[i] # "NoText"

\* C12: after onunload no key-down invokes speech, changes the stored
\* binding (no capture listener runs and stores a combo) or saves the
\* settings.
C12_NoKeyHandlingAfterUnload ==
  (phase = "unloaded" /\ lastOp = "keydown") =>
    /\ spoken = <<>>
    /\ captured = <<>>
    /\ saved = 0

====
